---- MODULE Spec2Model ----
(***************************************************************************)
(* Model of ariadne_codegen/generators/result_fields.py: the lowering of   *)
(* a GraphQL result-field type to a Python annotation (an ast tree) and    *)
(* the ordered list of FieldNames the field depends on.                    *)
(*                                                                         *)
(* parse_operation_field_type and parse_operation_field are pure           *)
(* functions.  They are modelled as recursive operators; the state machine *)
(* calls them on inputs drawn from bounded sets and records the outcome.   *)
(***************************************************************************)
EXTENDS Integers, Sequences, FiniteSets, TLC

VARIABLES pc, args, result

vars == <<pc, args, result>>

(***************************************************************************)
(* Bounds of the model.                                                    *)
(***************************************************************************)
\* Largest height of a type tree (wrappers and union membership nest).
MaxDepth == 2
\* Largest number of member types of a generated union.
MaxVariants == 2
\* Largest number of directives on a field.
MaxDirectives == 2

(***************************************************************************)
(* constants.py: the names the generated annotations use, as the           *)
(* specification and the expected output of the tests give them.           *)
(***************************************************************************)
ANY == "Any"
OPTIONAL == "Optional"
LIST == "list"
UNION_ == "Union"
INCLUDE_DIRECTIVE_NAME == "include"
SKIP_DIRECTIVE_NAME == "skip"
SIMPLE_TYPE_MAP ==
    [n \in {"String", "ID", "Int", "Boolean", "Float"} |->
        CASE n = "String" -> "str"
          [] n = "ID" -> "str"
          [] n = "Int" -> "int"
          [] n = "Boolean" -> "bool"
          [] n = "Float" -> "float"]

(***************************************************************************)
(* The ast nodes an annotation is built from.                              *)
(***************************************************************************)
ast_Name(id) == [node |-> "Name", id |-> id]
ast_Subscript(value, slice) == [node |-> "Subscript", value |-> value, slice |-> slice]
ast_Tuple(elts) == [node |-> "Tuple", elts |-> elts]

\* FieldNames = namedtuple("FieldNames", ["class_name", "type_name"])
FieldNames(class_name, type_name) == [class_name |-> class_name, type_name |-> type_name]

\* is_nullable: the annotation is a Subscript whose value is Name(OPTIONAL).
is_nullable(annotation) ==
    /\ annotation.node = "Subscript"
    /\ annotation.value.node = "Name"
    /\ annotation.value.id = OPTIONAL

(***************************************************************************)
(* codegen.py: the annotation constructors, after the specification's     *)
(* Annotation Builder.  Wrapping an annotation that is already Optional    *)
(* leaves it as it is.                                                     *)
(***************************************************************************)
generate_nullable_annotation(slice_) ==
    IF is_nullable(slice_) THEN slice_ ELSE ast_Subscript(ast_Name(OPTIONAL), slice_)

generate_annotation_name(name, nullable) ==
    LET result_ == ast_Name(name)
    IN  IF nullable THEN generate_nullable_annotation(result_) ELSE result_

generate_list_annotation(slice_, nullable) ==
    LET result_ == ast_Subscript(ast_Name(LIST), slice_)
    IN  IF nullable THEN generate_nullable_annotation(result_) ELSE result_

generate_union_annotation(types, nullable) ==
    LET result_ == ast_Subscript(ast_Name(UNION_), ast_Tuple(types))
    IN  IF nullable THEN generate_nullable_annotation(result_) ELSE result_

(***************************************************************************)
(* The graphql-core type objects, by class.                                *)
(***************************************************************************)
GraphQLScalarType(name) == [kind |-> "GraphQLScalarType", name |-> name]
GraphQLObjectType(name) == [kind |-> "GraphQLObjectType", name |-> name]
GraphQLInterfaceType(name) == [kind |-> "GraphQLInterfaceType", name |-> name]
GraphQLEnumType(name) == [kind |-> "GraphQLEnumType", name |-> name]
GraphQLUnionType(name, types) == [kind |-> "GraphQLUnionType", name |-> name, types |-> types]
GraphQLList(of_type) == [kind |-> "GraphQLList", of_type |-> of_type]
GraphQLNonNull(of_type) == [kind |-> "GraphQLNonNull", of_type |-> of_type]
\* A type parse_operation_field_type has no branch for (an input type).
GraphQLInputObjectType(name) == [kind |-> "GraphQLInputObjectType", name |-> name]

(***************************************************************************)
(* Outcome of a call: the returned tuple, or the exception raised.         *)
(***************************************************************************)
Return(annotation, names) == [raised |-> FALSE, annotation |-> annotation, names |-> names]
ParsingError == [raised |-> TRUE, error |-> "ParsingError", message |-> "Invalid field type."]

RECURSIVE parse_operation_field_type(_, _, _, _, _)
RECURSIVE UnionLoop(_, _, _, _, _)

\* Fault variant of ScalarBranch: the custom scalars are looked up before
\* the built-in table.
ScalarBranch_custom_first(type_, nullable, custom_scalars) ==
    IF DOMAIN custom_scalars # {} /\ type_.name \in DOMAIN custom_scalars
    THEN Return(generate_annotation_name(custom_scalars[type_.name].type, nullable),
                <<FieldNames(custom_scalars[type_.name].type, type_.name)>>)
    ELSE IF type_.name \in DOMAIN SIMPLE_TYPE_MAP
    THEN Return(generate_annotation_name(SIMPLE_TYPE_MAP[type_.name], nullable), <<>>)
    ELSE Return(generate_annotation_name(ANY, nullable), <<>>)

\* isinstance(type_, GraphQLScalarType)
ScalarBranch(type_, nullable, custom_scalars) ==
    IF type_.name \in DOMAIN SIMPLE_TYPE_MAP
    THEN Return(generate_annotation_name(SIMPLE_TYPE_MAP[type_.name], nullable), <<>>)
    ELSE IF DOMAIN custom_scalars # {} /\ type_.name \in DOMAIN custom_scalars
    THEN Return(generate_annotation_name(custom_scalars[type_.name].type, nullable),
                <<FieldNames(custom_scalars[type_.name].type, type_.name)>>)
    ELSE Return(generate_annotation_name(ANY, nullable), <<>>)

\* Fault variant of ObjectBranch: the type name is appended whatever
\* add_type_name says.
ObjectBranch_always_suffix(type_, nullable, class_name, add_type_name) ==
    LET name == class_name \o type_.name
    IN  Return(generate_annotation_name("\"" \o name \o "\"", nullable),
               <<FieldNames(name, type_.name)>>)

\* isinstance(type_, (GraphQLObjectType, GraphQLInterfaceType))
ObjectBranch(type_, nullable, class_name, add_type_name) ==
    LET name == IF add_type_name THEN class_name \o type_.name ELSE class_name
    IN  Return(generate_annotation_name("\"" \o name \o "\"", nullable),
               <<FieldNames(name, type_.name)>>)

\* isinstance(type_, GraphQLEnumType)
EnumBranch(type_, nullable) ==
    Return(generate_annotation_name(type_.name, nullable),
           <<FieldNames(type_.name, type_.name)>>)

\* Fault variant of UnionLoop: the subtypes are parsed with the default
\* nullable=True.
UnionLoop_nullable_members(subtypes, annotations, names, class_name, custom_scalars) ==
    IF subtypes = <<>>
    THEN [raised |-> FALSE, annotations |-> annotations, names |-> names]
    ELSE LET sub == parse_operation_field_type(Head(subtypes), TRUE, class_name,
                                               TRUE, custom_scalars)
         IN  IF sub.raised
             THEN sub
             ELSE UnionLoop(Tail(subtypes), Append(annotations, sub.annotation),
                            names \o sub.names, class_name, custom_scalars)

\* Fault variant of UnionLoop: a subtype that cannot be parsed is skipped.
UnionLoop_skip_invalid(subtypes, annotations, names, class_name, custom_scalars) ==
    IF subtypes = <<>>
    THEN [raised |-> FALSE, annotations |-> annotations, names |-> names]
    ELSE LET sub == parse_operation_field_type(Head(subtypes), FALSE, class_name,
                                               TRUE, custom_scalars)
         IN  IF sub.raised
             THEN UnionLoop(Tail(subtypes), annotations, names, class_name, custom_scalars)
             ELSE UnionLoop(Tail(subtypes), Append(annotations, sub.annotation),
                            names \o sub.names, class_name, custom_scalars)

\* Fault variant of UnionLoop: a name already collected is not added again.
UnionLoop_dedup_names(subtypes, annotations, names, class_name, custom_scalars) ==
    IF subtypes = <<>>
    THEN [raised |-> FALSE, annotations |-> annotations, names |-> names]
    ELSE LET sub == parse_operation_field_type(Head(subtypes), FALSE, class_name,
                                               TRUE, custom_scalars)
             seen == {names[i] : i \in 1..Len(names)}
             fresh == SelectSeq(sub.names, LAMBDA n : n \notin seen)
         IN  IF sub.raised
             THEN sub
             ELSE UnionLoop(Tail(subtypes), Append(annotations, sub.annotation),
                            names \o fresh, class_name, custom_scalars)

\* The for loop over type_.types: subtypes are the types still to visit,
\* annotations and names the lists built so far.  An exception raised for a
\* subtype leaves the loop and the function.
UnionLoop(subtypes, annotations, names, class_name, custom_scalars) ==
    IF subtypes = <<>>
    THEN [raised |-> FALSE, annotations |-> annotations, names |-> names]
    ELSE LET sub == parse_operation_field_type(Head(subtypes), FALSE, class_name,
                                               TRUE, custom_scalars)
         IN  IF sub.raised
             THEN sub
             ELSE UnionLoop(Tail(subtypes), Append(annotations, sub.annotation),
                            names \o sub.names, class_name, custom_scalars)

\* isinstance(type_, GraphQLUnionType)
UnionBranch(type_, nullable, class_name, custom_scalars) ==
    LET loop == UnionLoop(type_.types, <<>>, <<>>, class_name, custom_scalars)
    IN  IF loop.raised
        THEN loop
        ELSE Return(generate_union_annotation(loop.annotations, nullable), loop.names)

\* isinstance(type_, GraphQLList): add_type_name is not passed on, so the
\* element type is parsed with its default, False.
ListBranch(type_, nullable, class_name, custom_scalars) ==
    LET sub == parse_operation_field_type(type_.of_type, nullable, class_name,
                                          FALSE, custom_scalars)
    IN  IF sub.raised
        THEN sub
        ELSE Return(generate_list_annotation(sub.annotation, nullable), sub.names)

\* Fault variant of NonNullBranch: nullable=False is not passed, so the
\* wrapped type is parsed with the default nullable=True.
NonNullBranch_keeps_nullable(type_, class_name, custom_scalars) ==
    parse_operation_field_type(type_.of_type, TRUE, class_name, FALSE, custom_scalars)

\* isinstance(type_, GraphQLNonNull): add_type_name is not passed on.
NonNullBranch(type_, class_name, custom_scalars) ==
    parse_operation_field_type(type_.of_type, FALSE, class_name, FALSE, custom_scalars)

parse_operation_field_type(type_, nullable, class_name, add_type_name, custom_scalars) ==
    CASE type_.kind = "GraphQLScalarType" ->
            ScalarBranch(type_, nullable, custom_scalars)
      [] type_.kind \in {"GraphQLObjectType", "GraphQLInterfaceType"} ->
            ObjectBranch(type_, nullable, class_name, add_type_name)
      [] type_.kind = "GraphQLEnumType" ->
            EnumBranch(type_, nullable)
      [] type_.kind = "GraphQLUnionType" ->
            UnionBranch(type_, nullable, class_name, custom_scalars)
      [] type_.kind = "GraphQLList" ->
            ListBranch(type_, nullable, class_name, custom_scalars)
      [] type_.kind = "GraphQLNonNull" ->
            NonNullBranch(type_, class_name, custom_scalars)
      [] OTHER -> ParsingError

\* The directive names that make a field nullable.
nullable_directives == {INCLUDE_DIRECTIVE_NAME, SKIP_DIRECTIVE_NAME}

\* Fault variant of parse_operation_field: every directive, instead of any,
\* has to be a nullable directive.
parse_operation_field_all_directives(type_, directives, class_name, custom_scalars) ==
    LET parsed == parse_operation_field_type(type_, TRUE, class_name, FALSE, custom_scalars)
    IN  IF parsed.raised
        THEN parsed
        ELSE IF ~is_nullable(parsed.annotation) /\ Len(directives) > 0
                /\ \A i \in 1..Len(directives) : directives[i] \in nullable_directives
        THEN Return(generate_nullable_annotation(parsed.annotation), parsed.names)
        ELSE Return(parsed.annotation, parsed.names)

\* directives is the tuple of directive names (d.name.value of each node);
\* None and the empty tuple are both false in the guard and both modelled
\* as the empty tuple.
parse_operation_field(type_, directives, class_name, custom_scalars) ==
    LET parsed == parse_operation_field_type(type_, TRUE, class_name, FALSE, custom_scalars)
    IN  IF parsed.raised
        THEN parsed
        ELSE IF ~is_nullable(parsed.annotation) /\ Len(directives) > 0
                /\ \E i \in 1..Len(directives) : directives[i] \in nullable_directives
        THEN Return(generate_nullable_annotation(parsed.annotation), parsed.names)
        ELSE Return(parsed.annotation, parsed.names)

(***************************************************************************)
(* The inputs the calls are made on.                                       *)
(***************************************************************************)
SeqsUpTo(S, n) == UNION {[1..k -> S] : k \in 0..n}

ScalarNames == {"ID", "String", "Int", "Float", "Boolean", "DateTime", "Upload"}
ObjectNames == {"A", "B", "Node"}

Leaves ==
    {GraphQLScalarType(n) : n \in ScalarNames}
    \cup {GraphQLObjectType(n) : n \in ObjectNames}
    \cup {GraphQLInterfaceType("Character"), GraphQLEnumType("CustomEnum"),
          GraphQLInputObjectType("CustomInput")}

\* The member types unions are generated from.
VariantTypes ==
    {GraphQLObjectType(n) : n \in ObjectNames}
    \cup {GraphQLScalarType("DateTime"),
          GraphQLInputObjectType("CustomInput"),
          GraphQLList(GraphQLObjectType("A")),
          GraphQLUnionType("Inner", <<GraphQLObjectType("A"), GraphQLEnumType("CustomEnum")>>)}

\* Height of a type tree: 0 for a named type without member types.
RECURSIVE Height(_)
RECURSIVE MaxHeight(_)
MaxHeight(ts) == IF ts = <<>> THEN 0 ELSE LET h == Height(Head(ts)) m == MaxHeight(Tail(ts))
                                          IN  IF h > m THEN h ELSE m
Height(t) ==
    CASE t.kind \in {"GraphQLList", "GraphQLNonNull"} -> 1 + Height(t.of_type)
      [] t.kind = "GraphQLUnionType" -> 1 + MaxHeight(t.types)
      [] OTHER -> 0

\* The unions of height at most h: 1..MaxVariants members of smaller height.
Unions(h) ==
    {GraphQLUnionType("U", ts) :
        ts \in SeqsUpTo({t \in VariantTypes : Height(t) < h}, MaxVariants) \ {<<>>}}

\* The type trees of height at most h.
RECURSIVE TypesOfHeight(_)
TypesOfHeight(h) ==
    IF h = 0
    THEN Leaves
    ELSE LET inner == TypesOfHeight(h - 1)
         IN  inner \cup {GraphQLList(t) : t \in inner} \cup {GraphQLNonNull(t) : t \in inner}
                   \cup Unions(h)

Types == TypesOfHeight(MaxDepth)

ClassNames == {"OpA", "OpB"}

\* custom_scalars: a dict from scalar name to ScalarData (its .type); None
\* and the empty dict are both false in the guard of the scalar branch and
\* both modelled as the empty mapping.
ScalarData(type) == [type |-> type]
NoScalars == [n \in {} |-> ScalarData("")]
CustomScalars ==
    {NoScalars,
     [n \in {"DateTime"} |-> ScalarData("MyDate")],
     [n \in {"DateTime", "String"} |-> ScalarData(IF n = "DateTime" THEN "MyDate" ELSE "MyStr")]}

DirectiveNames == {"skip", "include", "deprecated"}
Directives == SeqsUpTo(DirectiveNames, MaxDirectives)

(***************************************************************************)
(* The state machine: a caller makes one call at a time.                   *)
(***************************************************************************)
NoArgs == [fn |-> "none"]
NoResult == [raised |-> FALSE]

Init ==
    /\ pc = "idle"
    /\ args = NoArgs
    /\ result = NoResult

CallParseOperationFieldType ==
    /\ pc = "idle"
    /\ \E type_ \in Types, nullable \in BOOLEAN, class_name \in ClassNames,
          add_type_name \in BOOLEAN, custom_scalars \in CustomScalars :
            /\ args' = [fn |-> "parse_operation_field_type", type_ |-> type_,
                        nullable |-> nullable, class_name |-> class_name,
                        add_type_name |-> add_type_name, custom_scalars |-> custom_scalars]
            /\ result' = parse_operation_field_type(type_, nullable, class_name,
                                                    add_type_name, custom_scalars)
    /\ pc' = "parse_operation_field_type"

CallParseOperationField ==
    /\ pc = "idle"
    /\ \E type_ \in Types, directives \in Directives, class_name \in ClassNames,
          custom_scalars \in CustomScalars :
            /\ args' = [fn |-> "parse_operation_field", type_ |-> type_,
                        directives |-> directives, class_name |-> class_name,
                        custom_scalars |-> custom_scalars]
            /\ result' = parse_operation_field(type_, directives, class_name, custom_scalars)
    /\ pc' = "parse_operation_field"

\* The caller takes the outcome; the next call starts afresh.
Done ==
    /\ pc # "idle"
    /\ pc' = "idle"
    /\ args' = NoArgs
    /\ result' = NoResult

Next == CallParseOperationFieldType \/ CallParseOperationField \/ Done

Spec == Init /\ [][Next]_vars

(***************************************************************************)
(* Vocabulary of the properties: the annotation shapes of the              *)
(* specification, written out as ast trees independently of the            *)
(* constructors above.                                                     *)
(***************************************************************************)
Named(n) == [node |-> "Name", id |-> n]
Optional(a) == [node |-> "Subscript", value |-> Named("Optional"), slice |-> a]
ListOf(a) == [node |-> "Subscript", value |-> Named("list"), slice |-> a]
UnionOf(as) == [node |-> "Subscript", value |-> Named("Union"),
                slice |-> [node |-> "Tuple", elts |-> as]]
IsOptional(a) == a.node = "Subscript" /\ a.value = Named("Optional")
OptionalIff(n, a) == IF n THEN Optional(a) ELSE a
\* The forward reference to a class: its name in quotes.
ForwardRef(n) == "\"" \o n \o "\""
HasConditional(directives) ==
    \E i \in 1..Len(directives) : directives[i] \in {"skip", "include"}

InTypeCall == pc = "parse_operation_field_type"
InFieldCall == pc = "parse_operation_field"

\* The outcome of parse_operation_field_type on the arguments of the call
\* made, with the type, the nullable flag and add_type_name replaced.
Lower(type_, nullable, add_type_name) ==
    parse_operation_field_type(type_, nullable, args.class_name, add_type_name,
                               args.custom_scalars)

ScalarInt == GraphQLScalarType("Int")

(***************************************************************************)
(* C1: parse_operation_field_type on List(NonNull(Int)) with nullable=true *)
(* yields Optional(ListOf(Named(int))), and on NonNull(List(Int)) with     *)
(* nullable=true yields ListOf(Optional(Named(int))): the NonNull around   *)
(* the list leaves the element Optional.                                   *)
(***************************************************************************)
C1_ListElementIndependence ==
    (InTypeCall /\ args.nullable) =>
        /\ args.type_ = GraphQLList(GraphQLNonNull(ScalarInt)) =>
                result = Return(Optional(ListOf(Named("int"))), <<>>)
        /\ args.type_ = GraphQLNonNull(GraphQLList(ScalarInt)) =>
                result = Return(ListOf(Optional(Named("int"))), <<>>)

(***************************************************************************)
(* C2: for every type T and every context (class_name, add_type_name,      *)
(* custom_scalars), parse_operation_field_type(NonNull(T), nullable=true)  *)
(* returns what parse_operation_field_type(T, nullable=false) returns in   *)
(* the same context.                                                       *)
(***************************************************************************)
C2_NonNullInversion ==
    (InTypeCall /\ args.nullable /\ args.type_.kind = "GraphQLNonNull") =>
        result = Lower(args.type_.of_type, FALSE, args.add_type_name)

(***************************************************************************)
(* C3: parse_operation_field wraps the annotation parsed for the type in   *)
(* Optional when it is not Optional and some directive is named skip or    *)
(* include; otherwise it returns that annotation unchanged.  The names are *)
(* those parsed for the type in both cases.                                *)
(***************************************************************************)
C3_DirectiveOverride ==
    (InFieldCall /\ ~result.raised) =>
        LET base == Lower(args.type_, TRUE, FALSE)
        IN  /\ result.names = base.names
            /\ result.annotation =
                 IF ~IsOptional(base.annotation) /\ HasConditional(args.directives)
                 THEN Optional(base.annotation)
                 ELSE base.annotation

\* A non-null String with an unrelated directive followed by skip.
C3_Witness ==
    /\ InFieldCall
    /\ args.type_ = GraphQLNonNull(GraphQLScalarType("String"))
    /\ args.directives = <<"deprecated", "skip">>
    /\ result = Return(Optional(Named("str")), <<>>)

(***************************************************************************)
(* C4: a union is lowered to UnionOf of its members' annotations in        *)
(* declaration order, wrapped in Optional iff nullable; no member          *)
(* annotation is Optional; members that are object types are named         *)
(* class_name + type name; one member gives a UnionOf of length one.       *)
(***************************************************************************)
C4_UnionMemberStripping ==
    (InTypeCall /\ args.type_.kind = "GraphQLUnionType" /\ ~result.raised) =>
        LET types == args.type_.types
            members == [i \in 1..Len(types) |-> Lower(types[i], FALSE, TRUE).annotation]
        IN  /\ result.annotation = OptionalIff(args.nullable, UnionOf(members))
            /\ IsOptional(result.annotation) <=> args.nullable
            /\ \A i \in 1..Len(types) :
                 /\ ~IsOptional(members[i])
                 /\ types[i].kind = "GraphQLObjectType" =>
                      members[i] = Named(ForwardRef(args.class_name \o types[i].name))

C4_Witness ==
    /\ InTypeCall
    /\ args.nullable
    /\ args.class_name = "OpA"
    /\ args.type_ = GraphQLUnionType("U", <<GraphQLObjectType("A"), GraphQLObjectType("B")>>)
    /\ result.annotation = Optional(UnionOf(<<Named("\"OpAA\""), Named("\"OpAB\"")>>))

(***************************************************************************)
(* C5: a scalar with a built-in name maps to its primitive and no name,    *)
(* also when custom_scalars registers that name; otherwise a scalar        *)
(* registered in custom_scalars maps to its target type and the one name   *)
(* (target type, scalar name); otherwise it maps to Any and no name.  The  *)
(* annotation is wrapped in Optional iff nullable.                         *)
(***************************************************************************)
Primitive(n) ==
    CASE n \in {"ID", "String"} -> "str"
      [] n = "Int" -> "int"
      [] n = "Float" -> "float"
      [] n = "Boolean" -> "bool"

C5_ScalarResolution ==
    (InTypeCall /\ args.type_.kind = "GraphQLScalarType") =>
        LET n == args.type_.name
            cs == args.custom_scalars
        IN  result =
              IF n \in {"ID", "String", "Int", "Float", "Boolean"}
              THEN Return(OptionalIff(args.nullable, Named(Primitive(n))), <<>>)
              ELSE IF n \in DOMAIN cs
              THEN Return(OptionalIff(args.nullable, Named(cs[n].type)),
                          <<[class_name |-> cs[n].type, type_name |-> n]>>)
              ELSE Return(OptionalIff(args.nullable, Named("Any")), <<>>)

\* String is built in and also registered as a custom scalar.
C5_Witness ==
    /\ InTypeCall
    /\ args.type_ = GraphQLScalarType("String")
    /\ "String" \in DOMAIN args.custom_scalars
    /\ ~args.nullable
    /\ result = Return(Named("str"), <<>>)

(***************************************************************************)
(* C6: an object or interface type yields the one name (local, type name)  *)
(* with local = class_name + type name when add_type_name is set and       *)
(* class_name otherwise, and the annotation is the forward reference to    *)
(* local.  A union whose one member is the object type Node yields         *)
(* (class_name + "Node", "Node").                                          *)
(***************************************************************************)
C6_NameDisambiguation ==
    InTypeCall =>
        /\ args.type_.kind \in {"GraphQLObjectType", "GraphQLInterfaceType"} =>
             LET local == IF args.add_type_name
                          THEN args.class_name \o args.type_.name
                          ELSE args.class_name
             IN  result = Return(OptionalIff(args.nullable, Named(ForwardRef(local))),
                                 <<[class_name |-> local, type_name |-> args.type_.name]>>)
        /\ args.type_ = GraphQLUnionType("U", <<GraphQLObjectType("Node")>>) =>
             /\ args.class_name = "OpA" =>
                  result.names = <<[class_name |-> "OpANode", type_name |-> "Node"]>>
             /\ args.class_name = "OpB" =>
                  result.names = <<[class_name |-> "OpBNode", type_name |-> "Node"]>>

C6_Witness ==
    /\ InTypeCall
    /\ args.type_ = GraphQLUnionType("U", <<GraphQLObjectType("Node")>>)
    /\ args.class_name = "OpB"
    /\ ~args.add_type_name
    /\ result.names = <<[class_name |-> "OpBNode", type_name |-> "Node"]>>

(***************************************************************************)
(* C7: parse_operation_field_type raises ParsingError iff the type tree    *)
(* holds a node of a kind other than the seven handled, at the top, inside *)
(* a List or NonNull or as a union member at any position.  When it raises *)
(* it returns neither annotation nor names; otherwise it returns both.     *)
(***************************************************************************)
RECURSIVE HasInvalidNode(_)
HasInvalidNode(t) ==
    CASE t.kind \in {"GraphQLScalarType", "GraphQLObjectType", "GraphQLInterfaceType",
                     "GraphQLEnumType"} -> FALSE
      [] t.kind \in {"GraphQLList", "GraphQLNonNull"} -> HasInvalidNode(t.of_type)
      [] t.kind = "GraphQLUnionType" ->
            \E i \in 1..Len(t.types) : HasInvalidNode(t.types[i])
      [] OTHER -> TRUE

C7_NoPartialFailure ==
    InTypeCall =>
        /\ result.raised <=> HasInvalidNode(args.type_)
        /\ result.raised =>
             /\ result.error = "ParsingError"
             /\ DOMAIN result \cap {"annotation", "names"} = {}
        /\ ~result.raised => {"annotation", "names"} \subseteq DOMAIN result

\* The invalid member comes after a member that yields a name.
C7_Witness ==
    /\ InTypeCall
    /\ args.type_ = GraphQLUnionType("U", <<GraphQLObjectType("A"),
                                            GraphQLInputObjectType("CustomInput")>>)
    /\ result.raised
    /\ "names" \notin DOMAIN result

(***************************************************************************)
(* C8: lowering List(T) with (nullable, ctx) returns ListOf(a) wrapped in  *)
(* Optional iff nullable, and names, where (a, names) is what lowering T   *)
(* returns with the same nullable and the same ctx: class_name,            *)
(* add_type_name and custom_scalars.                                       *)
(***************************************************************************)
C8_ListRule ==
    (InTypeCall /\ args.type_.kind = "GraphQLList" /\ ~result.raised) =>
        LET sub == Lower(args.type_.of_type, args.nullable, args.add_type_name)
        IN  result = Return(OptionalIff(args.nullable, ListOf(sub.annotation)), sub.names)

(***************************************************************************)
(* C9: the names returned for a union are the concatenation, in member     *)
(* order, of the names of each member lowered with nullable=false and      *)
(* add_type_name=true in the same class_name and custom_scalars; nothing   *)
(* is deduplicated, reordered or dropped.                                  *)
(***************************************************************************)
RECURSIVE MemberNames(_)
MemberNames(types) ==
    IF types = <<>>
    THEN <<>>
    ELSE Lower(Head(types), FALSE, TRUE).names \o MemberNames(Tail(types))

RECURSIVE SumOfLengths(_)
SumOfLengths(types) ==
    IF types = <<>>
    THEN 0
    ELSE Len(Lower(Head(types), FALSE, TRUE).names) + SumOfLengths(Tail(types))

C9_UnionNamesOrder ==
    (InTypeCall /\ args.type_.kind = "GraphQLUnionType" /\ ~result.raised) =>
        /\ result.names = MemberNames(args.type_.types)
        /\ Len(result.names) = SumOfLengths(args.type_.types)

\* The same member twice: its name is returned twice.
C9_Witness ==
    /\ InTypeCall
    /\ args.class_name = "OpA"
    /\ args.type_ = GraphQLUnionType("U", <<GraphQLObjectType("A"), GraphQLObjectType("A")>>)
    /\ result.names = <<[class_name |-> "OpAA", type_name |-> "A"],
                        [class_name |-> "OpAA", type_name |-> "A"]>>

(***************************************************************************)
(* C10: the annotation parse_operation_field returns is Optional at the    *)
(* top iff the outermost type is not NonNull or some directive is named    *)
(* skip or include, and it holds no Optional directly inside an Optional.  *)
(***************************************************************************)
RECURSIVE NoOptionalInOptional(_)
NoOptionalInOptional(a) ==
    CASE a.node = "Name" -> TRUE
      [] a.node = "Tuple" -> \A i \in 1..Len(a.elts) : NoOptionalInOptional(a.elts[i])
      [] a.node = "Subscript" ->
            /\ (IsOptional(a) => ~IsOptional(a.slice))
            /\ NoOptionalInOptional(a.slice)

C10_TopLevelOptionality ==
    (InFieldCall /\ ~result.raised) =>
        /\ IsOptional(result.annotation) <=>
             (args.type_.kind # "GraphQLNonNull" \/ HasConditional(args.directives))
        /\ NoOptionalInOptional(result.annotation)

\* A non-null list made Optional by a directive; its elements are not.
C10_Witness ==
    /\ InFieldCall
    /\ args.type_ = GraphQLNonNull(GraphQLList(GraphQLScalarType("String")))
    /\ args.directives = <<"include">>
    /\ IsOptional(result.annotation)
    /\ ~IsOptional(result.annotation.slice)

====
